---------------------------- MODULE Spec2Model ----------------------------
(***************************************************************************)
(* The client-side reply-ordering engine of faaskeeper/queue.py:           *)
(* WorkQueue, EventQueue (with its watch registry), ResponseListener,      *)
(* SubmitterThread and SorterThread, together with the user threads that   *)
(* call WorkQueue.add_request and the wall clock read by the Sorter.       *)
(***************************************************************************)
EXTENDS Integers, Sequences, FiniteSets, TLC

(***************************************************************************)
(* Bounds of the model.                                                    *)
(***************************************************************************)
\* number of add_request calls the user threads start in one behaviour
MaxReq == 3
\* number of advances of the wall clock, each by one timeout period
MaxTicks == 1
\* number of EventQueue method calls in one behaviour of SpecWatch
MaxCalls == 4

(***************************************************************************)
(* Program constants.                                                      *)
(***************************************************************************)
\* the per-request timeout of SorterThread._check_timeout (5.0 seconds)
Timeout == 5

(***************************************************************************)
(* Input sets.                                                             *)
(***************************************************************************)
Users == {"u1", "u2"}
Paths == {"/x", "/y"}
WatchTypes == {"GET_DATA", "EXISTS"}
WatchEventTypes == {"NODE_DATA_CHANGED", "NODE_DELETED"}
\* logical timestamps: Watch.timestamp and Node.modified.system.sum
Stamps == {1, 2}
\* observed timestamps handed to get_watches
ReadStamps == {1, 2, 3}
SessionId == "S"

\* hashlib.md5(path.encode()).hexdigest()
Md5(path) ==
    CASE path = "/x" -> "cc8755609ad61864910f145119713de9"
      [] path = "/y" -> "a72df3f6810a09aca60c3e01d91312d5"
      [] OTHER -> "d41d8cd98f00b204e9800998ecf8427e"

\* p.split("_")[0] of an epoch entry
SplitPrefix(entry) ==
    CASE entry = "/x_001" -> "/x"
      [] entry = "/y_001" -> "/y"
      [] OTHER -> entry

\* f"{session_id}-{req_id}", the key a reply carries in its "event" field
FormatEvent(session, req_id) == <<session, req_id>>

\* int(result["event"].split("-")[1])
ParseEvent(event) == event[2]

VARIABLES
    wq_queue,       \* WorkQueue._queue: (request_id, op, future) tuples
    wq_closing,     \* WorkQueue._closing
    request_count,  \* WorkQueue._request_count
    upc,            \* user thread -> its position inside add_request
    uloc,           \* user thread -> locals of its add_request call
    nput,           \* number of tuples put into the work queue so far
    eq_queue,       \* EventQueue._queue
    eq_closing,     \* EventQueue._closing
    watches,        \* EventQueue._watches: md5 key -> list of watches
    sub,            \* SubmitterThread: state, position and current submission
    net,            \* replies the service has still to deliver
    lis,            \* ResponseListener thread state
    sorter,         \* SorterThread thread state
    futures,        \* the local list `futures` of SorterThread.run
    now,            \* wall clock
    completed,      \* terminal events delivered to Futures, in order
    delivered,      \* Watch.generate_message calls, in order
    seen,           \* the (id, future) of the expected-slots the Sorter dequeued
    calls,          \* the number of direct calls of queue methods and the last one
    work_event,     \* thread -> its _work_event is set
    stopper,        \* thread -> position of the caller of its stop()
    drain           \* the caller of WorkQueue.wait_close

vars == <<wq_queue, wq_closing, request_count, upc, uloc, nput, eq_queue,
          eq_closing, watches, sub, net, lis, sorter, futures, now,
          completed, delivered, seen, calls, work_event, stopper, drain>>

wqVars == <<wq_queue, wq_closing, request_count, upc, uloc, nput>>
eqVars == <<eq_queue, eq_closing, watches>>
sorterVars == <<sorter, futures, completed, delivered, seen>>
ctlVars == <<work_event, stopper, drain>>

(***************************************************************************)
(* Operations and results.                                                 *)
(***************************************************************************)
CloudOp == [cloud |-> TRUE, path |-> "/x", wtype |-> "GET_DATA"]

NoneResult == [tag |-> "None", path |-> "", sum |-> 0, epoch |-> <<>>]
ErrorResult(kind) == [tag |-> kind, path |-> "", sum |-> 0, epoch |-> <<>>]
NodeResult(path, sum, epoch) ==
    [tag |-> "Node", path |-> path, sum |-> sum, epoch |-> epoch]
IsException(result) == result.tag \notin {"None", "Node"}

NoLocals == [id |-> 0, tmp |-> 0, op |-> CloudOp]
NoSubmission == [id |-> 0, op |-> CloudOp, fut |-> 0]
NoWatch == [watch_type |-> "GET_DATA", timestamp |-> 0, wid |-> 0]
NoResponse == [result |-> NoneResult, watch |-> NoWatch, has_watch |-> FALSE]

\* no EventQueue method called yet
NoCall == [n |-> 0, op |-> "none", path |-> "", watch_event |-> "",
           raised |-> FALSE, paths |-> <<>>, timestamp |-> 0, result |-> <<>>]

\* the background threads
Threads == {"listener", "submitter", "sorter"}

\* nobody is inside wait_close
NoDrain == [pc |-> "idle", timeout |-> 0, start |-> 0]

\* EventQueue._watches = {}
EmptyRegistry == [k \in {} |-> <<>>]

Init ==
    /\ wq_queue = <<>>
    /\ wq_closing = FALSE
    /\ request_count = 0
    /\ upc = [u \in Users |-> "idle"]
    /\ uloc = [u \in Users |-> NoLocals]
    /\ nput = 0
    /\ eq_queue = <<>>
    /\ eq_closing = FALSE
    /\ watches = EmptyRegistry
    /\ sub = [state |-> "running", pc |-> "get", step |-> 0,
              cur |-> NoSubmission, res |-> NoResponse]
    /\ net = {}
    /\ lis = "running"
    /\ sorter = "running"
    /\ futures = <<>>
    /\ now = 0
    /\ completed = <<>>
    /\ delivered = <<>>
    /\ seen = {}
    /\ calls = NoCall
    /\ work_event = [t \in Threads |-> TRUE]
    /\ stopper = [t \in Threads |-> "idle"]
    /\ drain = NoDrain

(***************************************************************************)
(* WorkQueue.add_request, as a user thread executes it.  The method takes  *)
(* no lock: the read of _request_count for the tuple, the put, and the     *)
(* load and the store of `_request_count += 1` are separate steps.         *)
(***************************************************************************)
Started == nput + Cardinality({u \in Users : upc[u] = "put"})

\* line 184-187: the closing check and the read of self._request_count
AddRequestBegin(u, op) ==
    /\ upc[u] = "idle"
    /\ Started < MaxReq
    /\ ~wq_closing
    /\ upc' = [upc EXCEPT ![u] = "put"]
    /\ uloc' = [uloc EXCEPT ![u] = [id |-> request_count, tmp |-> 0, op |-> op]]
    /\ UNCHANGED <<wq_queue, wq_closing, request_count, nput>>
    /\ UNCHANGED <<eqVars, sub, net, lis, sorterVars, now, calls, ctlVars>>

\* line 187: self._queue.put((id, op, fut)); the Future is named by the
\* position of its tuple in the order of the puts
AddRequestPut(u) ==
    /\ upc[u] = "put"
    /\ wq_queue' = Append(wq_queue,
                          [id |-> uloc[u].id, op |-> uloc[u].op, fut |-> nput + 1])
    /\ nput' = nput + 1
    /\ upc' = [upc EXCEPT ![u] = "load"]
    /\ UNCHANGED <<wq_closing, request_count, uloc>>
    /\ UNCHANGED <<eqVars, sub, net, lis, sorterVars, now, calls, ctlVars>>

\* line 188: the load of self._request_count
AddRequestLoad(u) ==
    /\ upc[u] = "load"
    /\ uloc' = [uloc EXCEPT ![u].tmp = request_count]
    /\ upc' = [upc EXCEPT ![u] = "store"]
    /\ UNCHANGED <<wq_queue, wq_closing, request_count, nput>>
    /\ UNCHANGED <<eqVars, sub, net, lis, sorterVars, now, calls, ctlVars>>

\* line 188: the store of self._request_count
AddRequestStore(u) ==
    /\ upc[u] = "store"
    /\ request_count' = uloc[u].tmp + 1
    /\ upc' = [upc EXCEPT ![u] = "idle"]
    /\ uloc' = [uloc EXCEPT ![u] = NoLocals]
    /\ UNCHANGED <<wq_queue, wq_closing, nput>>
    /\ UNCHANGED <<eqVars, sub, net, lis, sorterVars, now, calls, ctlVars>>

\* WorkQueue.close / EventQueue.close
WorkQueueClose ==
    /\ ~wq_closing
    /\ wq_closing' = TRUE
    /\ UNCHANGED <<wq_queue, request_count, upc, uloc, nput>>
    /\ UNCHANGED <<eqVars, sub, net, lis, sorterVars, now, calls, ctlVars>>

EventQueueClose ==
    /\ ~eq_closing
    /\ eq_closing' = TRUE
    /\ UNCHANGED <<eq_queue, watches>>
    /\ UNCHANGED <<wqVars, sub, net, lis, sorterVars, now, calls, ctlVars>>


(***************************************************************************)
(* The watch registry EventQueue._watches, a dict from md5 key to list.    *)
(***************************************************************************)
\* self._watches.get(key, []): a missing key and an empty list read alike
RegGet(reg, key) == IF key \in DOMAIN reg THEN reg[key] ELSE <<>>

\* self._watches[key] = list
RegSet(reg, key, list) ==
    [k \in DOMAIN reg \cup {key} |-> IF k = key THEN list ELSE reg[k]]

\* self._watches.pop(key, None)
RegPop(reg, key) == [k \in DOMAIN reg \ {key} |-> reg[k]]

\* del list[idx]
DelAt(list, idx) ==
    [i \in 1..(Len(list) - 1) |-> IF i < idx THEN list[i] ELSE list[i + 1]]

\* the scan of add_watch (lines 133-139): the first index holding a watch of
\* the type, 0 when the scan finds none
RECURSIVE FindWatchType(_, _, _)
FindWatchType(list, watch_type, idx) ==
    IF idx > Len(list) THEN 0
    ELSE IF list[idx].watch_type = watch_type THEN idx
    ELSE FindWatchType(list, watch_type, idx + 1)

\* add_watch with every watch appended to its bucket
AddWatchAppendOnly(reg, path, watch) ==
    RegSet(reg, Md5(path), Append(RegGet(reg, Md5(path)), watch))

\* EventQueue.add_watch, lines 129-143: the registry after the call
AddWatchReg(reg, path, watch) ==
    LET hashed_path == Md5(path)
        existing_watches == RegGet(reg, hashed_path)
        idx == FindWatchType(existing_watches, watch.watch_type, 1)
    IN  IF existing_watches # <<>>
        THEN IF idx > 0
             THEN RegSet(reg, hashed_path, [existing_watches EXCEPT ![idx] = watch])
             ELSE RegSet(reg, hashed_path, Append(existing_watches, watch))
        ELSE RegSet(reg, hashed_path, <<watch>>)

WatchedEvent(watch_event, path, timestamp) ==
    [event_type |-> watch_event, path |-> path, timestamp |-> timestamp]

WatchNotification(w, event) ==
    [type |-> "WATCH_NOTIFICATION", watch |-> w, event |-> event]

\* the scan of add_watch_notification firing the first watch of the bucket,
\* whatever its type and whatever the event
NotifyScanAnyType(existing_watches, idx, event) ==
    IF idx > Len(existing_watches)
    THEN [list |-> existing_watches, put |-> <<>>]
    ELSE [list |-> DelAt(existing_watches, idx),
          put |-> <<WatchNotification(existing_watches[idx], event)>>]

\* the scan of add_watch_notification (lines 108-120) from index idx: the
\* bucket it leaves and the events it puts into the queue.  The return of
\* line 119 ends the scan at the first watch whenever the notification is a
\* NODE_DATA_CHANGED, whatever the type of that watch.
RECURSIVE NotifyScan(_, _, _)
NotifyScan(existing_watches, idx, event) ==
    IF idx > Len(existing_watches)
    THEN [list |-> existing_watches, put |-> <<>>]
    ELSE IF event.event_type = "NODE_DATA_CHANGED"
         THEN IF existing_watches[idx].watch_type = "GET_DATA"
              THEN [list |-> DelAt(existing_watches, idx),
                    put |-> <<WatchNotification(existing_watches[idx], event)>>]
              ELSE [list |-> existing_watches, put |-> <<>>]
         ELSE NotifyScan(existing_watches, idx + 1, event)

\* EventQueue.add_watch_notification, lines 98-122: the registry after the
\* call and the events put into the queue
AddWatchNotificationReg(reg, result) ==
    LET hashed_path == Md5(result.path)
        existing_watches == RegGet(reg, hashed_path)
        scan == NotifyScan(existing_watches, 1,
                           WatchedEvent(result.watch_event, result.path, result.timestamp))
    IN  IF existing_watches # <<>>
        THEN [watches |-> RegSet(reg, hashed_path, scan.list), put |-> scan.put]
        ELSE [watches |-> reg, put |-> <<>>]

\* get_watches selecting the watches up to the observed timestamp
NotYoungerThan(existing_watches, timestamp) ==
    SelectSeq(existing_watches, LAMBDA w : w.timestamp <= timestamp)

\* the watches of a bucket that get_watches selects (lines 158-161)
OlderThan(existing_watches, timestamp) ==
    SelectSeq(existing_watches, LAMBDA w : w.timestamp < timestamp)

\* EventQueue.get_watches, lines 153-165: the registry after the call and
\* the list returned.  The keys are looked up as they are given.
RECURSIVE GetWatchesReg(_, _, _, _)
GetWatchesReg(reg, paths, timestamp, found) ==
    IF paths = <<>>
    THEN [watches |-> reg, result |-> found]
    ELSE LET p == Head(paths)
             existing_watches == RegGet(reg, p)
             older == OlderThan(existing_watches, timestamp)
         IN  GetWatchesReg(IF Len(older) = Len(existing_watches)
                             THEN RegPop(reg, p) ELSE reg,
                           Tail(paths), timestamp, found \o older)

(***************************************************************************)
(* The EventQueue methods, called directly (specification SpecWatch).      *)
(***************************************************************************)
NewWatch(watch_type, timestamp, wid) ==
    [watch_type |-> watch_type, timestamp |-> timestamp, wid |-> wid]

\* one more call, remembered as the last one: the method, its arguments,
\* whether it raised and the list it returned
Called(op, path, watch_event) ==
    [n |-> calls.n + 1, op |-> op, path |-> path, watch_event |-> watch_event,
     raised |-> FALSE, paths |-> <<>>, timestamp |-> 0, result |-> <<>>]

\* the call left its method by `raise SessionClosingException()`
Raised(call) == [call EXCEPT !.raised = TRUE]

WatchFrame ==
    UNCHANGED <<wqVars, sub, net, lis, sorterVars, now, ctlVars>>

\* EventQueue.add_watch(path, watch)
AddWatch(path, watch_type, timestamp) ==
    /\ calls.n < MaxCalls
    /\ IF eq_closing
       THEN /\ calls' = Raised(Called("add_watch", path, ""))
            /\ UNCHANGED watches
       ELSE /\ calls' = Called("add_watch", path, "")
            /\ watches' = AddWatchReg(watches, path,
                                      NewWatch(watch_type, timestamp, calls.n + 1))
    /\ UNCHANGED <<eq_queue, eq_closing>>
    /\ WatchFrame

\* EventQueue.get_watches(paths, timestamp)
GetWatches(paths, timestamp) ==
    /\ calls.n < MaxCalls
    /\ IF eq_closing
       THEN /\ calls' = Raised(Called("get_watches", "", ""))
            /\ UNCHANGED watches
       ELSE LET r == GetWatchesReg(watches, paths, timestamp, <<>>)
            IN  /\ calls' = [Called("get_watches", "", "")
                                EXCEPT !.paths = paths, !.timestamp = timestamp,
                                       !.result = r.result]
                /\ watches' = r.watches
    /\ UNCHANGED <<eq_queue, eq_closing>>
    /\ WatchFrame

\* EventQueue.add_watch_notification(result)
AddWatchNotification(path, watch_event, timestamp) ==
    /\ calls.n < MaxCalls
    /\ IF eq_closing
       THEN /\ calls' = Raised(Called("add_watch_notification", path, watch_event))
            /\ UNCHANGED <<watches, eq_queue>>
       ELSE LET r == AddWatchNotificationReg(watches,
                        [path |-> path, watch_event |-> watch_event,
                         timestamp |-> timestamp])
            IN  /\ calls' = Called("add_watch_notification", path, watch_event)
                /\ watches' = r.watches
                /\ eq_queue' = eq_queue \o r.put
    /\ UNCHANGED eq_closing
    /\ WatchFrame

\* EventQueue.get(), lines 167-171, with an event in the queue
EventQueueGet ==
    /\ eq_queue # <<>>
    /\ eq_queue' = Tail(eq_queue)
    /\ UNCHANGED <<watches, eq_closing, calls>>
    /\ WatchFrame

\* the key lists handed to get_watches: md5 keys, as at line 438, and the
\* unhashed path of an epoch entry, as at line 448
KeyLists ==
    {<<Md5(p)>> : p \in Paths} \cup {<<Md5("/x"), Md5("/y")>>, <<"/y">>}

NextWatch ==
    \/ \E p \in Paths, t \in WatchTypes, ts \in Stamps : AddWatch(p, t, ts)
    \/ \E ks \in KeyLists, ts \in ReadStamps : GetWatches(ks, ts)
    \/ \E p \in Paths, e \in WatchEventTypes, ts \in Stamps :
          AddWatchNotification(p, e, ts)
    \/ EventQueueGet
    \/ EventQueueClose

SpecWatch == Init /\ [][NextWatch]_vars


(***************************************************************************)
(* Events of the EventQueue and terminal events of Futures.                *)
(***************************************************************************)
ExpectedResult(request_id, request, future) ==
    [type |-> "CLOUD_EXPECTED_RESULT", id |-> request_id, op |-> request,
     fut |-> future]

DirectResult(request_id, result, future) ==
    [type |-> "CLOUD_DIRECT_RESULT", id |-> request_id, result |-> result,
     fut |-> future]

IndirectResult(result) == [type |-> "CLOUD_INDIRECT_RESULT", result |-> result]

\* Future.set_result / Future.set_exception / Operation.process_result: one
\* more terminal event on the Future, recorded in order
Complete(log, future, how, val, idx) ==
    Append(log, [fut |-> future, how |-> how, val |-> val, idx |-> idx])

\* Watch.generate_message(event): one more callback of the watch
GenerateMessage(log, w, event) == Append(log, [watch |-> w, event |-> event])

RECURSIVE GenerateMessages(_, _, _)
GenerateMessages(log, ws, event) ==
    IF ws = <<>> THEN log
    ELSE GenerateMessages(GenerateMessage(log, Head(ws), event), Tail(ws), event)

(***************************************************************************)
(* SubmitterThread.run, lines 322-360.                                     *)
(***************************************************************************)
SubFrame == UNCHANGED <<wq_closing, request_count, upc, uloc, nput,
                        eq_closing, lis, sorterVars, now, calls, ctlVars>>

\* the cloud branch in the order of a faulty build: the provider call alone
SendOnly == <<"send_request">>

\* lines 335-336: the calls of the cloud branch, in statement order
CloudSteps == <<"add_expected_result", "send_request">>

\* the step of the cloud branch the Submitter stands before
CloudStep == IF sub.pc = "cloud" /\ sub.step \in 1..Len(CloudSteps)
             THEN CloudSteps[sub.step] ELSE "none"

\* the position after a cloud step that raised nothing
AfterCloudStep ==
    IF sub.step < Len(CloudSteps)
    THEN [sub EXCEPT !.step = sub.step + 1]
    ELSE [sub EXCEPT !.pc = "get", !.step = 0, !.cur = NoSubmission]

\* the handlers of lines 356-359: add_direct_result(req_id, e, future); a
\* SessionClosingException raised inside the handler leaves run()
HandleException(kind) ==
    IF eq_closing
    THEN /\ sub' = [sub EXCEPT !.state = "SessionClosingException"]
         /\ UNCHANGED eq_queue
    ELSE /\ eq_queue' = Append(eq_queue,
                               DirectResult(sub.cur.id, ErrorResult(kind), sub.cur.fut))
         /\ sub' = [sub EXCEPT !.pc = "get", !.step = 0, !.cur = NoSubmission,
                                !.res = NoResponse]

\* lines 324-330: submission = self._queue.get(), with a submission queued
SubmitterGet ==
    /\ sub.state = "running"
    /\ sub.pc = "get"
    /\ wq_queue # <<>>
    /\ wq_queue' = Tail(wq_queue)
    /\ sub' = [sub EXCEPT !.cur = Head(wq_queue),
                          !.pc = IF Head(wq_queue).op.cloud THEN "cloud" ELSE "direct",
                          !.step = 1]
    /\ UNCHANGED <<eq_queue, watches, net>>
    /\ SubFrame

\* line 335: self._event_queue.add_expected_result(req_id, request, future)
SubmitterAddExpected ==
    /\ sub.state = "running"
    /\ CloudStep = "add_expected_result"
    /\ IF eq_closing
       THEN HandleException("SessionClosingException")
       ELSE /\ eq_queue' = Append(eq_queue,
                                  ExpectedResult(sub.cur.id, sub.cur.op, sub.cur.fut))
            /\ sub' = AfterCloudStep
    /\ UNCHANGED <<wq_queue, watches, net>>
    /\ SubFrame

\* lines 336-343 and 356-359: self._provider_client.send_request(...); it
\* returns, or raises a ProviderException or another exception
SubmitterSendRequest(outcome) ==
    /\ sub.state = "running"
    /\ CloudStep = "send_request"
    /\ IF outcome = "ok"
       THEN /\ net' = net \cup {[fut |-> sub.cur.fut,
                                 event |-> FormatEvent(SessionId, sub.cur.id)]}
            /\ sub' = AfterCloudStep
            /\ UNCHANGED eq_queue
       ELSE /\ HandleException(outcome)
            /\ UNCHANGED net
    /\ UNCHANGED <<wq_queue, watches>>
    /\ SubFrame

\* lines 348-350: res = execute_request(request, listener_address), and the
\* add_watch of a (result, watch) pair
SubmitterExecute(response) ==
    /\ sub.state = "running"
    /\ sub.pc = "direct"
    /\ sub.step = 1
    /\ IF IsException(response.result)
       THEN HandleException(response.result.tag) /\ UNCHANGED watches
       ELSE IF response.has_watch /\ eq_closing
       THEN HandleException("SessionClosingException") /\ UNCHANGED watches
       ELSE /\ watches' = IF response.has_watch
                          THEN AddWatchReg(watches, sub.cur.op.path, response.watch)
                          ELSE watches
            /\ sub' = [sub EXCEPT !.step = 2, !.res = response]
            /\ UNCHANGED eq_queue
    /\ UNCHANGED <<wq_queue, net>>
    /\ SubFrame

\* lines 351-355: self._event_queue.add_direct_result(req_id, res, future)
SubmitterDirectResult ==
    /\ sub.state = "running"
    /\ sub.pc = "direct"
    /\ sub.step = 2
    /\ IF eq_closing
       THEN HandleException("SessionClosingException")
       ELSE /\ eq_queue' = Append(eq_queue,
                                  DirectResult(sub.cur.id, sub.res.result, sub.cur.fut))
            /\ sub' = [sub EXCEPT !.pc = "get", !.step = 0, !.cur = NoSubmission,
                                   !.res = NoResponse]
    /\ UNCHANGED <<wq_queue, watches, net>>
    /\ SubFrame

\* what execute_request can hand back for the submission in progress: None,
\* a (Node, Watch) pair, or an exception
Responses(nodes, stamps) ==
    {NoResponse}
    \cup {[result |-> ErrorResult("Exception"), watch |-> NoWatch, has_watch |-> FALSE]}
    \cup {[result |-> NodeResult(sub.cur.op.path, n[1], n[2]),
           watch |-> NewWatch(sub.cur.op.wtype, ts, sub.cur.fut),
           has_watch |-> TRUE] : n \in nodes, ts \in stamps}

(***************************************************************************)
(* ResponseListener.run, lines 246-261: one accepted connection.           *)
(***************************************************************************)
LisFrame == UNCHANGED <<wqVars, eq_closing, sub, sorterVars, now, calls,
                        ctlVars>>

\* line 261: a reply of the service, forwarded by add_indirect_result
ListenerIndirect(reply) ==
    /\ lis = "running"
    /\ reply \in net
    /\ net' = net \ {reply}
    /\ IF eq_closing
       THEN lis' = "SessionClosingException" /\ UNCHANGED eq_queue
       ELSE /\ eq_queue' = Append(eq_queue, IndirectResult([event |-> reply.event]))
            /\ UNCHANGED lis
    /\ UNCHANGED watches
    /\ LisFrame

\* line 259: a watch notification, handed to add_watch_notification
ListenerWatch(path, watch_event, timestamp) ==
    /\ lis = "running"
    /\ IF eq_closing \/ watch_event \notin WatchEventTypes
       THEN /\ lis' = IF eq_closing THEN "SessionClosingException" ELSE "ValueError"
            /\ UNCHANGED <<eq_queue, watches>>
       ELSE LET r == AddWatchNotificationReg(watches,
                        [path |-> path, watch_event |-> watch_event,
                         timestamp |-> timestamp])
            IN  /\ watches' = r.watches
                /\ eq_queue' = eq_queue \o r.put
                /\ UNCHANGED lis
    /\ UNCHANGED net
    /\ LisFrame

(***************************************************************************)
(* SorterThread.                                                           *)
(***************************************************************************)
\* SorterThread._check_timeout, lines 395-407, from index i (0-based, as in
\* the source): the list and the terminal events it leaves
RECURSIVE CheckTimeoutFrom(_, _, _, _)
CheckTimeoutFrom(futs, i, cur_timestamp, log) ==
    IF i < Len(futs)
    THEN LET fut == futs[i + 1]
         IN  IF cur_timestamp - fut.ts >= Timeout
             THEN CheckTimeoutFrom(Tail(futs), i + 1, cur_timestamp,
                                   Complete(log, fut.fut, "set_exception",
                                            "TimeoutException", -1))
             ELSE [futures |-> futs, completed |-> log]
    ELSE [futures |-> futs, completed |-> log]

CheckTimeout(futs, log) == CheckTimeoutFrom(futs, 0, now, log)

\* an expected-slot put at the head of the list
PrependExpected(futs, entry) == <<entry>> \o futs

\* line 430: futures.append((*submission[1:], datetime.now().timestamp()))
AppendExpected(futs, entry) == Append(futs, entry)

\* the correlation of a reply with the check of line 463 left out
IndirectCheckNoAssert(futs, req_id) ==
    IF futs = <<>> THEN "IndexError" ELSE "ok"

\* line 463: assert futures[0][0] == req_id, in a build that keeps assert
\* statements: the exception that leaves run(), or "ok"
IndirectCheck(futs, req_id) ==
    IF futs = <<>> THEN "IndexError"
    ELSE IF futs[1].id = req_id THEN "ok" ELSE "AssertionError"

SorterFrame == UNCHANGED <<wqVars, eq_closing, sub, net, lis, now, calls,
                           ctlVars>>

\* lines 419-425: the poll returned nothing
SorterIdle ==
    /\ sorter = "running"
    /\ eq_queue = <<>>
    /\ LET r == CheckTimeout(futures, completed)
       IN  futures' = r.futures /\ completed' = r.completed
    /\ UNCHANGED <<eq_queue, watches, sorter, delivered, seen>>
    /\ SorterFrame

\* lines 429-430 and 476-477: an expected-slot, then the timeout scan
SorterExpected ==
    /\ sorter = "running"
    /\ eq_queue # <<>>
    /\ Head(eq_queue).type = "CLOUD_EXPECTED_RESULT"
    /\ LET submission == Head(eq_queue)
           entry == [id |-> submission.id, op |-> submission.op,
                     fut |-> submission.fut, ts |-> now]
           r == CheckTimeout(AppendExpected(futures, entry), completed)
       IN  /\ futures' = r.futures
           /\ completed' = r.completed
           /\ seen' = seen \cup {[id |-> submission.id, fut |-> submission.fut]}
    /\ eq_queue' = Tail(eq_queue)
    /\ UNCHANGED <<watches, sorter, delivered>>
    /\ SorterFrame

\* the paths of lines 444-447
EpochPaths(epoch) == [i \in 1..Len(epoch) |-> SplitPrefix(epoch[i])]

\* lines 432-456: a direct result
SorterDirect ==
    /\ sorter = "running"
    /\ eq_queue # <<>>
    /\ Head(eq_queue).type = "CLOUD_DIRECT_RESULT"
    /\ eq_queue' = Tail(eq_queue)
    /\ LET submission == Head(eq_queue)
           result == submission.result
           own == GetWatchesReg(watches, <<Md5(result.path)>>, result.sum, <<>>)
           epoch == GetWatchesReg(own.watches, EpochPaths(result.epoch),
                                  result.sum, <<>>)
       IN  IF result.tag = "Node" /\ eq_closing
           THEN /\ sorter' = "SessionClosingException"
                /\ UNCHANGED <<watches, delivered, completed>>
           ELSE /\ IF result.tag = "Node"
                   THEN /\ watches' = epoch.watches
                        /\ delivered' = GenerateMessages(delivered, own.result,
                                 WatchedEvent("NODE_DATA_CHANGED", result.path, result.sum))
                   ELSE UNCHANGED <<watches, delivered>>
                /\ completed' = Complete(completed, submission.fut,
                                         IF IsException(result)
                                         THEN "set_exception" ELSE "set_result",
                                         result.tag, -1)
                /\ UNCHANGED sorter
    /\ UNCHANGED <<futures, seen>>
    /\ SorterFrame

\* lines 457-466: a reply of the service
SorterIndirect ==
    /\ sorter = "running"
    /\ eq_queue # <<>>
    /\ Head(eq_queue).type = "CLOUD_INDIRECT_RESULT"
    /\ eq_queue' = Tail(eq_queue)
    /\ LET req_id == ParseEvent(Head(eq_queue).result.event)
           check == IndirectCheck(futures, req_id)
       IN  IF check = "ok"
           THEN /\ futures' = Tail(futures)
                /\ completed' = Complete(completed, futures[1].fut,
                                         "process_result", "reply", req_id)
                /\ UNCHANGED sorter
           ELSE /\ sorter' = check
                /\ UNCHANGED <<futures, completed>>
    /\ UNCHANGED <<watches, delivered, seen>>
    /\ SorterFrame

\* lines 467-477: a watch notification, then the timeout scan
SorterWatch ==
    /\ sorter = "running"
    /\ eq_queue # <<>>
    /\ Head(eq_queue).type = "WATCH_NOTIFICATION"
    /\ eq_queue' = Tail(eq_queue)
    /\ delivered' = GenerateMessage(delivered, Head(eq_queue).watch,
                                    Head(eq_queue).event)
    /\ LET r == CheckTimeout(futures, completed)
       IN  futures' = r.futures /\ completed' = r.completed
    /\ UNCHANGED <<watches, sorter, seen>>
    /\ SorterFrame

\* the wall clock read by datetime.now().  _check_timeout compares ages with
\* Timeout and nothing else, so the clock advances by one timeout period at
\* a time: an entry is either younger than Timeout or expired.
Tick ==
    /\ now < MaxTicks * Timeout
    /\ now' = now + Timeout
    /\ UNCHANGED <<wqVars, eqVars, sub, net, lis, sorterVars, calls, ctlVars>>

(***************************************************************************)
(* The session: user threads, the three background threads, the clock.     *)
(***************************************************************************)
SessionOps == {CloudOp, [cloud |-> FALSE, path |-> "/x", wtype |-> "GET_DATA"]}

\* One user thread submits cloud requests and plain reads; the provider
\* accepts a request or fails with a ProviderException; a read returns None
\* or raises.
Next ==
    \/ \E op \in SessionOps : AddRequestBegin("u1", op)
    \/ AddRequestPut("u1")
    \/ AddRequestLoad("u1")
    \/ AddRequestStore("u1")
    \/ SubmitterGet
    \/ SubmitterAddExpected
    \/ \E o \in {"ok", "ProviderException"} : SubmitterSendRequest(o)
    \/ \E r \in Responses({}, {}) : SubmitterExecute(r)
    \/ SubmitterDirectResult
    \/ \E reply \in net : ListenerIndirect(reply)
    \/ SorterIdle
    \/ SorterExpected
    \/ SorterDirect
    \/ SorterIndirect
    \/ Tick

Spec == Init /\ [][Next]_vars

(***************************************************************************)
(* Concurrent user threads: add_request called from two threads, and the   *)
(* Submitter draining the work queue.                                      *)
(***************************************************************************)
NextIds ==
    \/ \E u \in Users : AddRequestBegin(u, CloudOp)
    \/ \E u \in Users : AddRequestPut(u)
    \/ \E u \in Users : AddRequestLoad(u)
    \/ \E u \in Users : AddRequestStore(u)
    \/ SubmitterGet
    \/ SubmitterAddExpected
    \/ SubmitterSendRequest("ok")

SpecIds == Init /\ [][NextIds]_vars

(***************************************************************************)
(* Reads and watches: direct requests that register watches, watch         *)
(* notifications of the service, and the Sorter firing them.               *)
(***************************************************************************)
ReadOps == [cloud : {FALSE}, path : Paths, wtype : WatchTypes]
ReadNodes == {<<2, <<>>>>, <<2, <<"/y_001">>>>}

NextRead ==
    \/ \E op \in ReadOps : AddRequestBegin("u1", op)
    \/ AddRequestPut("u1")
    \/ AddRequestLoad("u1")
    \/ AddRequestStore("u1")
    \/ SubmitterGet
    \/ \E r \in Responses(ReadNodes, Stamps) : SubmitterExecute(r)
    \/ SubmitterDirectResult
    \/ \E p \in Paths, ts \in {2} : ListenerWatch(p, "NODE_DATA_CHANGED", ts)
    \/ SorterIdle
    \/ SorterDirect
    \/ SorterWatch

SpecRead == Init /\ [][NextRead]_vars

(***************************************************************************)
(* Session close: the methods of both queues called directly, before and   *)
(* after close().                                                          *)
(***************************************************************************)
\* add_expected_result without the test of self._closing
AddExpectedResultUnchecked(queue, closing, request_id, request, future) ==
    [raised |-> FALSE,
     queue |-> Append(queue, ExpectedResult(request_id, request, future))]

\* EventQueue.add_expected_result, lines 76-80: whether the call raised, and
\* the queue after it
AddExpectedResultCall(queue, closing, request_id, request, future) ==
    IF closing
    THEN [raised |-> TRUE, queue |-> queue]
    ELSE [raised |-> FALSE,
          queue |-> Append(queue, ExpectedResult(request_id, request, future))]

\* EventQueue.add_direct_result, lines 82-86
AddDirectResultCall(queue, closing, request_id, result, future) ==
    IF closing
    THEN [raised |-> TRUE, queue |-> queue]
    ELSE [raised |-> FALSE,
          queue |-> Append(queue, DirectResult(request_id, result, future))]

\* EventQueue.add_indirect_result, lines 88-92
AddIndirectResultCall(queue, closing, result) ==
    IF closing
    THEN [raised |-> TRUE, queue |-> queue]
    ELSE [raised |-> FALSE, queue |-> Append(queue, IndirectResult(result))]

\* a call of one of the three put methods, with outcome r
QueueCall(op, r) ==
    /\ calls.n < MaxCalls
    /\ calls' = IF r.raised THEN Raised(Called(op, "", "")) ELSE Called(op, "", "")
    /\ eq_queue' = r.queue
    /\ UNCHANGED <<watches, eq_closing>>
    /\ WatchFrame

AddExpectedResult(request_id, future) ==
    QueueCall("add_expected_result",
              AddExpectedResultCall(eq_queue, eq_closing, request_id, CloudOp, future))

AddDirectResult(request_id, result, future) ==
    QueueCall("add_direct_result",
              AddDirectResultCall(eq_queue, eq_closing, request_id, result, future))

AddIndirectResult(request_id) ==
    QueueCall("add_indirect_result",
              AddIndirectResultCall(eq_queue, eq_closing,
                                    [event |-> FormatEvent(SessionId, request_id)]))

\* lines 184-185: WorkQueue.add_request on a closed queue raises
AddRequestClosed(u) ==
    /\ upc[u] = "idle"
    /\ wq_closing
    /\ calls.n < MaxCalls
    /\ calls' = Raised(Called("add_request", "", ""))
    /\ UNCHANGED <<wqVars, eqVars, sub, net, lis, sorterVars, now, ctlVars>>

NextClose ==
    \/ AddRequestBegin("u1", CloudOp)
    \/ AddRequestPut("u1")
    \/ AddRequestLoad("u1")
    \/ AddRequestStore("u1")
    \/ AddRequestClosed("u1")
    \/ AddExpectedResult(0, 1)
    \/ AddDirectResult(0, NoneResult, 1)
    \/ AddIndirectResult(0)
    \/ \E t \in WatchTypes : AddWatch("/x", t, 1)
    \/ GetWatches(<<Md5("/x")>>, 2)
    \/ AddWatchNotification("/x", "NODE_DATA_CHANGED", 2)
    \/ EventQueueClose
    \/ WorkQueueClose

SpecClose == Init /\ [][NextClose]_vars

(***************************************************************************)
(* stop() of the three background threads, and the loop test and the exit  *)
(* of their run() methods.                                                 *)
(***************************************************************************)
\* how run() of thread t stands: "running", "exited" after a normal return,
\* or the name of the exception that left it
ThreadState(t) ==
    CASE t = "listener" -> lis
      [] t = "submitter" -> sub.state
      [] t = "sorter" -> sorter

\* thread t stands at the test of its while loop
AtLoopTest(t) ==
    /\ ThreadState(t) = "running"
    /\ t = "submitter" => sub.pc = "get"

\* lines 246, 322, 416: `while self._work_event.is_set()` lets one more
\* iteration start
WhileSet(t, iteration) == work_event[t] /\ iteration

\* lines 274, 313, 390: stop() clears the event
StopClear(t) ==
    /\ stopper[t] \in {"idle", "returned"}
    /\ work_event' = [work_event EXCEPT ![t] = FALSE]
    /\ stopper' = [stopper EXCEPT ![t] = "wait"]
    /\ UNCHANGED <<wqVars, eqVars, sub, net, lis, sorterVars, now, calls, drain>>

\* lines 275, 314, 391: self._work_event.wait() returns once the event is set
StopWait(t) ==
    /\ stopper[t] = "wait"
    /\ work_event[t]
    /\ stopper' = [stopper EXCEPT ![t] = "returned"]
    /\ UNCHANGED <<wqVars, eqVars, sub, net, lis, sorterVars, now, calls,
                   work_event, drain>>

\* lines 262-264, 362-363, 479-480: the loop test fails, the thread sets the
\* event and run() returns
ThreadExit(t) ==
    /\ AtLoopTest(t)
    /\ ~work_event[t]
    /\ work_event' = [work_event EXCEPT ![t] = TRUE]
    /\ lis' = IF t = "listener" THEN "exited" ELSE lis
    /\ sub' = IF t = "submitter" THEN [sub EXCEPT !.state = "exited"] ELSE sub
    /\ sorter' = IF t = "sorter" THEN "exited" ELSE sorter
    /\ UNCHANGED <<wqVars, eqVars, net, futures, completed, delivered, seen,
                   now, calls, stopper, drain>>

\* the steps of run() of each thread
SubmitterRun ==
    \/ WhileSet("submitter", SubmitterGet)
    \/ SubmitterAddExpected
    \/ SubmitterSendRequest("ok")
    \/ ThreadExit("submitter")

ListenerRun ==
    \/ \E reply \in net : WhileSet("listener", ListenerIndirect(reply))
    \/ ThreadExit("listener")

SorterRun ==
    \/ WhileSet("sorter", SorterIdle)
    \/ WhileSet("sorter", SorterExpected)
    \/ WhileSet("sorter", SorterIndirect)
    \/ ThreadExit("sorter")

NextStop ==
    \/ AddRequestBegin("u1", CloudOp)
    \/ AddRequestPut("u1")
    \/ AddRequestLoad("u1")
    \/ AddRequestStore("u1")
    \/ WhileSet("submitter", SubmitterGet)
    \/ SubmitterAddExpected
    \/ SubmitterSendRequest("ok")
    \/ \E reply \in net : WhileSet("listener", ListenerIndirect(reply))
    \/ WhileSet("sorter", SorterIdle)
    \/ WhileSet("sorter", SorterExpected)
    \/ WhileSet("sorter", SorterIndirect)
    \/ \E t \in Threads : ThreadExit(t)
    \/ \E t \in Threads : StopClear(t)
    \/ \E t \in Threads : StopWait(t)

\* the threads are scheduled: a thread that can take a step of its run()
\* takes one, and a caller whose wait() can return returns
SpecStop ==
    /\ Init
    /\ [][NextStop]_vars
    /\ WF_vars(SubmitterRun)
    /\ WF_vars(ListenerRun)
    /\ WF_vars(SorterRun)
    /\ \A t \in Threads : WF_vars(ThreadExit(t)) /\ WF_vars(StopWait(t))

(***************************************************************************)
(* WorkQueue.wait_close and wait_until, called while user threads enqueue  *)
(* and the Submitter drains the queue.                                     *)
(***************************************************************************)
\* the timeouts wait_close is called with: the default -1, zero, and one
\* timeout period
DrainTimeouts == {-1, 0, Timeout}

DrainFrame == UNCHANGED <<wqVars, eqVars, sub, net, lis, sorterVars, now,
                          calls, work_event, stopper>>

\* lines 199-201: wait_close(timeout) tests `timeout > 0`; wait_until reads
\* the clock (line 33)
WaitCloseCall(timeout) ==
    /\ drain.pc \in {"idle", "returned", "TimeoutException"}
    /\ drain' = IF timeout > 0
                THEN [pc |-> "wait", timeout |-> timeout, start |-> now]
                ELSE [pc |-> "returned", timeout |-> timeout, start |-> 0]
    /\ DrainFrame

\* lines 34-35: one test of the loop of wait_until; it sleeps while the
\* queue is not empty and the timeout has not passed
WaitUntilTest ==
    /\ drain.pc = "wait"
    /\ drain' = IF wq_queue # <<>> /\ now - drain.start < drain.timeout
                THEN drain
                ELSE [drain EXCEPT !.pc = "check"]
    /\ DrainFrame

\* lines 202-203: the second test of emptiness, and the raise
WaitCloseCheck ==
    /\ drain.pc = "check"
    /\ drain' = [drain EXCEPT !.pc = IF wq_queue # <<>>
                                     THEN "TimeoutException" ELSE "returned"]
    /\ DrainFrame

NextDrain ==
    \/ AddRequestBegin("u1", CloudOp)
    \/ AddRequestPut("u1")
    \/ AddRequestLoad("u1")
    \/ AddRequestStore("u1")
    \/ SubmitterGet
    \/ SubmitterAddExpected
    \/ SubmitterSendRequest("ok")
    \/ Tick
    \/ \E timeout \in DrainTimeouts : WaitCloseCall(timeout)
    \/ WaitUntilTest
    \/ WaitCloseCheck

SpecDrain == Init /\ [][NextDrain]_vars

(***************************************************************************)
(* Faults: EventQueue.close() while the threads work, malformed messages   *)
(* and unknown watch-event types on the Listener's socket.                 *)
(***************************************************************************)
\* line 256: json.loads(conn.recv(1024).decode()) on a message that is not
\* JSON raises inside the else block of the try statement, which no except
\* clause covers
ListenerMalformed ==
    /\ lis = "running"
    /\ lis' = "JSONDecodeError"
    /\ UNCHANGED <<eq_queue, watches, net>>
    /\ LisFrame

\* the watch-event values a message can carry: those of WatchEventType and
\* one that is none of them
MessageEvents == {"NODE_DATA_CHANGED", "UNKNOWN"}

NextFaults ==
    \/ \E op \in SessionOps : AddRequestBegin("u1", op)
    \/ AddRequestPut("u1")
    \/ AddRequestLoad("u1")
    \/ AddRequestStore("u1")
    \/ SubmitterGet
    \/ SubmitterAddExpected
    \/ \E o \in {"ok", "ProviderException"} : SubmitterSendRequest(o)
    \/ \E r \in Responses({<<2, <<>>>>}, {1}) : SubmitterExecute(r)
    \/ SubmitterDirectResult
    \/ \E reply \in net : ListenerIndirect(reply)
    \/ \E e \in MessageEvents : ListenerWatch("/x", e, 2)
    \/ ListenerMalformed
    \/ SorterIdle
    \/ SorterExpected
    \/ SorterDirect
    \/ SorterIndirect
    \/ SorterWatch
    \/ EventQueueClose

SpecFaults == Init /\ [][NextFaults]_vars

(***************************************************************************)
(* Concurrent user threads with the whole pipeline: two threads enqueue,   *)
(* the Submitter dispatches, the Listener forwards replies, the Sorter     *)
(* appends expected-slots, pops on replies and removes on timeout.         *)
(***************************************************************************)
NextOrder ==
    \/ \E u \in Users : AddRequestBegin(u, CloudOp)
    \/ \E u \in Users : AddRequestPut(u)
    \/ \E u \in Users : AddRequestLoad(u)
    \/ \E u \in Users : AddRequestStore(u)
    \/ SubmitterGet
    \/ SubmitterAddExpected
    \/ SubmitterSendRequest("ok")
    \/ \E reply \in net : ListenerIndirect(reply)
    \/ SorterIdle
    \/ SorterExpected
    \/ SorterIndirect
    \/ Tick

SpecOrder == Init /\ [][NextOrder]_vars

(***************************************************************************)
(* Properties.                                                             *)
(***************************************************************************)
\* the number of terminal events Future f has received
Terminals(f) == Cardinality({i \in 1..Len(completed) : completed[i].fut = f})

\* Future f is held by an entry of the Sorter's pending list
Pending(f) == \E k \in 1..Len(futures) : futures[k].fut = f

\* the Sorter stands before a CLOUD_INDIRECT_RESULT
AtIndirect ==
    /\ sorter = "running"
    /\ eq_queue # <<>>
    /\ Head(eq_queue).type = "CLOUD_INDIRECT_RESULT"

\* the local_idx of the reply at the head of the EventQueue
HeadIdx == ParseEvent(Head(eq_queue).result.event)

\* C1: every Future has received at most one terminal event (set_result,
\* set_exception or process_result), in every reachable state.
C1_CompletedAtMostOnce == \A f \in 1..nput : Terminals(f) <= 1

\* C2 (its safety half): an expected-slot the Sorter appended to its pending
\* list is still pending or its own Future has received a terminal event; no
\* entry leaves the list with its Future never completed.
C2_RemovedOnlyCompleted ==
    \A e \in seen : Pending(e.fut) \/ Terminals(e.fut) >= 1

\* the terminal events delivered by process_result, in order
IndirectEvents == SelectSeq(completed, LAMBDA e : e.how = "process_result")

\* C3: Futures completed by indirect replies are completed in the order
\* their requests were enqueued; each such completion took the entry at the
\* head of the pending list (everything still pending was enqueued later),
\* and that entry carried the local_idx of the reply.
C3_FifoCorrelation ==
    /\ \A i, j \in 1..Len(IndirectEvents) :
          i < j => IndirectEvents[i].fut < IndirectEvents[j].fut
    /\ \A i \in 1..Len(IndirectEvents) :
          /\ [id |-> IndirectEvents[i].idx, fut |-> IndirectEvents[i].fut] \in seen
          /\ \A k \in 1..Len(futures) : futures[k].fut > IndirectEvents[i].fut

\* two requests completed by their replies, in order, and nothing pending
C3_Witness == Len(IndirectEvents) >= 2 /\ futures = <<>>

\* the expected-slot of request id k was dequeued by the Sorter, or stands
\* in the EventQueue before position j
ExpectedAhead(k, j) ==
    \/ \E e \in seen : e.id = k
    \/ \E i \in 1..(j - 1) :
          /\ eq_queue[i].type = "CLOUD_EXPECTED_RESULT"
          /\ eq_queue[i].id = k

\* C5: the expected-slot of a cloud request is in the EventQueue (or already
\* dequeued by the Sorter) when the Submitter stands before send_request for
\* it, hence while a reply for it is under way and ahead of every
\* CLOUD_INDIRECT_RESULT carrying its request_id in the FIFO EventQueue: the
\* Sorter dequeues the slot before any such reply.
C5_ExpectedBeforeReply ==
    /\ CloudStep = "send_request" =>
          ExpectedAhead(sub.cur.id, Len(eq_queue) + 1)
    /\ \A r \in net : ExpectedAhead(ParseEvent(r.event), Len(eq_queue) + 1)
    /\ \A j \in 1..Len(eq_queue) :
          eq_queue[j].type = "CLOUD_INDIRECT_RESULT" =>
             ExpectedAhead(ParseEvent(eq_queue[j].result.event), j)

\* the Sorter stands before the reply of a request whose expected-slot it
\* has dequeued
C5_Witness == AtIndirect /\ \E e \in seen : e.id = HeadIdx

\* C6: a CLOUD_INDIRECT_RESULT whose local_idx differs from the request_id
\* at the head of a non-empty pending list ends the Sorter with an
\* AssertionError; no Future is completed and the pending list is left as it
\* was.
C6_MismatchAsserts ==
    [][(/\ AtIndirect
        /\ futures # <<>>
        /\ futures[1].id # HeadIdx
        /\ eq_queue' = Tail(eq_queue))
       => (/\ sorter' = "AssertionError"
           /\ completed' = completed
           /\ futures' = futures)]_vars

\* the Sorter ended by the assertion with the mismatched slot still pending
C6_Witness == sorter = "AssertionError" /\ futures # <<>>

\* the request with id k has been failed with a TimeoutException
TimedOut(k) ==
    \E e \in seen : /\ e.id = k
                    /\ \E i \in 1..Len(completed) :
                          /\ completed[i].fut = e.fut
                          /\ completed[i].val = "TimeoutException"

\* C7: the reply of a timed-out request that arrives while the pending list
\* is empty is dropped: the Sorter keeps running, completes no Future, and
\* the pending list stays empty.
C7_LateReplyDropped ==
    [][(/\ AtIndirect
        /\ futures = <<>>
        /\ TimedOut(HeadIdx)
        /\ eq_queue' = Tail(eq_queue))
       => (/\ sorter' = "running"
           /\ completed' = completed
           /\ futures' = <<>>)]_vars

\* C8: once the Sorter has failed the Future of a cloud request with the
\* ProviderException of send_request, the expected-slot of that request is
\* no longer in the pending list.
C8_ProviderErrorRemovesSlot ==
    \A i \in 1..Len(completed) :
       completed[i].val = "ProviderException" => ~Pending(completed[i].fut)

(***************************************************************************)
(* Properties of WorkQueue.add_request under concurrent callers (SpecIds). *)
(***************************************************************************)
\* the request_ids in the order of the puts: those the Submitter took (their
\* expected-slots), the one it holds, those still queued
PutOrder ==
    [i \in 1..Len(eq_queue) |-> eq_queue[i].id]
    \o (IF sub.pc = "cloud" /\ sub.step = 1 THEN <<sub.cur.id>> ELSE <<>>)
    \o [i \in 1..Len(wq_queue) |-> wq_queue[i].id]

\* C4: the request_ids are 0, 1, 2, ... in queue order, and WorkQueue.get
\* hands the entries out in that order: none duplicated, skipped or out of
\* order.
C4_SequentialIds == \A i \in 1..Len(PutOrder) : PutOrder[i] = i - 1

(***************************************************************************)
(* Properties of the watch registry (SpecWatch).                           *)
(***************************************************************************)
\* the step is a call add_watch_notification(path, NODE_DATA_CHANGED) on an
\* open queue
NotifiesDataChanged(path) ==
    /\ ~eq_closing
    /\ calls'.n = calls.n + 1
    /\ calls'.op = "add_watch_notification"
    /\ calls'.path = path
    /\ calls'.watch_event = "NODE_DATA_CHANGED"

\* C9: a NODE_DATA_CHANGED notification for a path with a registered
\* GET_DATA watch enqueues exactly one WATCH_NOTIFICATION, for that watch,
\* and removes the watch from the registry, whatever else the bucket holds.
C9_GetDataWatchFires ==
    [][\A p \in Paths : \A k \in 1..Len(RegGet(watches, Md5(p))) :
          (/\ NotifiesDataChanged(p)
           /\ watches[Md5(p)][k].watch_type = "GET_DATA")
          => (/\ Len(eq_queue') = Len(eq_queue) + 1
              /\ eq_queue'[Len(eq_queue')].type = "WATCH_NOTIFICATION"
              /\ eq_queue'[Len(eq_queue')].watch = watches[Md5(p)][k]
              /\ \A m \in 1..Len(RegGet(watches', Md5(p))) :
                    watches'[Md5(p)][m] # watches[Md5(p)][k])]_vars

\* every bucket holds at most one watch of a watch_type
OnePerType ==
    \A key \in DOMAIN watches : \A i, j \in 1..Len(watches[key]) :
       watches[key][i].watch_type = watches[key][j].watch_type => i = j

\* the step registered a new watch at index k of the bucket of key
Registered(key, k) ==
    /\ key \in DOMAIN watches'
    /\ k \in 1..Len(watches'[key])
    /\ watches'[key][k].wid = calls.n + 1

\* the step replaced in place: the bucket keeps its length, every other
\* entry and every other bucket stay as they were
ReplacedInPlace(key, k) ==
    /\ Len(watches'[key]) = Len(watches[key])
    /\ watches[key][k].watch_type = watches'[key][k].watch_type
    /\ \A m \in 1..Len(watches[key]) : m # k => watches'[key][m] = watches[key][m]
    /\ \A other \in DOMAIN watches : other # key => 
          other \in DOMAIN watches' /\ watches'[other] = watches[other]

\* C10: every bucket of the registry holds at most one watch per
\* watch_type, and an add_watch of a (path, watch_type) that is registered
\* replaces the old watch in place: the bucket does not grow, the other
\* watches of the bucket and the other buckets are unchanged.
C10_OnePerTypeReplace ==
    /\ []OnePerType
    /\ [][\A key \in DOMAIN watches' : \A k \in 1..Len(watches'[key]) :
            (/\ Registered(key, k)
             /\ \E m \in 1..Len(RegGet(watches, key)) :
                   watches[key][m].watch_type = watches'[key][k].watch_type)
            => ReplacedInPlace(key, k)]_vars

\* a bucket of two watch types whose first watch was replaced after the
\* second was registered
C10_Witness ==
    \E key \in DOMAIN watches :
       /\ Len(watches[key]) = 2
       /\ watches[key][1].wid > watches[key][2].wid

(***************************************************************************)
(* Properties of reads, watches and notifications (SpecRead).              *)
(***************************************************************************)
\* the Sorter stands before a CLOUD_DIRECT_RESULT that carries a Node
AtDirectNode ==
    /\ sorter = "running"
    /\ eq_queue # <<>>
    /\ Head(eq_queue).type = "CLOUD_DIRECT_RESULT"
    /\ Head(eq_queue).result.tag = "Node"

\* the paths a read of the node observes: its own and those of its epoch
ObservedPaths(result) ==
    {result.path} \cup {SplitPrefix(result.epoch[i]) : i \in 1..Len(result.epoch)}

\* watch w is in the bucket of path p in registry reg
InRegistry(reg, p, w) ==
    \E k \in 1..Len(RegGet(reg, Md5(p))) : reg[Md5(p)][k] = w

\* the callbacks the step made, as a sequence
NewDeliveries == SubSeq(delivered', Len(delivered) + 1, Len(delivered'))

\* C11: when the Sorter processes a CLOUD_DIRECT_RESULT holding a Node with
\* observed timestamp T, every registered watch with timestamp < T on the
\* node's path and on every path of its epoch is delivered a
\* NODE_DATA_CHANGED event, and after the step the registry holds none of
\* these watches.
C11_DirectReadFiresWatches ==
    [][(AtDirectNode /\ eq_queue' = Tail(eq_queue))
       => LET result == Head(eq_queue).result
          IN  \A p \in ObservedPaths(result) :
                 \A k \in 1..Len(RegGet(watches, Md5(p))) :
                    LET w == watches[Md5(p)][k]
                    IN  w.timestamp < result.sum
                        => /\ \E d \in 1..Len(NewDeliveries) :
                                 /\ NewDeliveries[d].watch = w
                                 /\ NewDeliveries[d].event.event_type
                                        = "NODE_DATA_CHANGED"
                           /\ ~InRegistry(watches', p, w)]_vars

(***************************************************************************)
(* Properties of close() (SpecClose).                                      *)
(***************************************************************************)
EventQueueMethods ==
    {"add_expected_result", "add_direct_result", "add_indirect_result",
     "add_watch_notification", "add_watch", "get_watches"}

\* the step is a call of a mutating method of a queue that is closed
CallAfterClose ==
    /\ calls'.n = calls.n + 1
    /\ \/ calls'.op \in EventQueueMethods /\ eq_closing
       \/ calls'.op = "add_request" /\ wq_closing

\* C12: a call of a mutating method of a queue that has been closed raises
\* SessionClosingException and leaves the queues, the watch registry and the
\* request counter as they were; no add_request call that starts on a closed
\* WorkQueue gets past the test of _closing.
C12_ClosedQueueRejects ==
    [][/\ CallAfterClose
          => /\ calls'.raised
             /\ UNCHANGED <<eq_queue, watches, wq_queue, request_count>>
       /\ \A u \in Users :
             (wq_closing /\ upc[u] = "idle") => upc'[u] = "idle"]_vars

\* add_expected_result raised on a closed EventQueue that holds events
C12_Witness ==
    /\ eq_closing
    /\ calls.raised
    /\ calls.op = "add_expected_result"
    /\ eq_queue # <<>>

(***************************************************************************)
(* Properties of the timeout scan (Spec).                                  *)
(***************************************************************************)
\* the entry has reached the per-request timeout
Expired(entry) == now - entry.ts >= Timeout

\* the number of entries at the head of futs that have expired
RECURSIVE ExpiredPrefix(_)
ExpiredPrefix(futs) ==
    IF futs # <<>> /\ Expired(Head(futs)) THEN 1 + ExpiredPrefix(Tail(futs)) ELSE 0

\* the terminal event of a timeout on an entry
TimeoutEvent(entry) ==
    [fut |-> entry.fut, how |-> "set_exception", val |-> "TimeoutException",
     idx |-> -1]

\* the step is a poll of the Sorter that returned nothing and whose timeout
\* scan acted
IdleScan ==
    /\ sorter = "running"
    /\ eq_queue = <<>>
    /\ <<futures, completed>>' # <<futures, completed>>

\* C15: one timeout scan over a pending list whose first k entries have
\* expired fails the Futures of exactly these k entries with a
\* TimeoutException, removes exactly these k entries and leaves the others
\* in their order, for every k.
C15_ScanFailsExpiredPrefix ==
    [][IdleScan
       => LET k == ExpiredPrefix(futures)
          IN  /\ futures' = SubSeq(futures, k + 1, Len(futures))
              /\ completed' = completed \o [i \in 1..k |-> TimeoutEvent(futures[i])]]_vars

\* the step is a poll of the Sorter: an event taken from the EventQueue, or
\* an empty poll whose scan acted
SorterPolled ==
    /\ sorter = "running"
    /\ \/ eq_queue # <<>> /\ eq_queue' = Tail(eq_queue)
       \/ IdleScan

\* C16: the first Sorter poll after the age of a pending entry has reached
\* the timeout fails its Future with a TimeoutException and removes the
\* entry, whatever the poll returned; the poll does not complete the entry
\* in another way and does not keep it pending.
C16_ExpiredFailsAtNextPoll ==
    [][SorterPolled
       => \A k \in 1..Len(futures) :
             Expired(futures[k])
             => /\ ~(\E m \in 1..Len(futures') : futures'[m].fut = futures[k].fut)
                /\ \E i \in (Len(completed) + 1)..Len(completed') :
                      completed'[i] = TimeoutEvent(futures[k])
                /\ \A i \in (Len(completed) + 1)..Len(completed') :
                      completed'[i].fut = futures[k].fut
                      => completed'[i].val = "TimeoutException"]_vars

(***************************************************************************)
(* Properties of get_watches and of unmatched notifications (SpecWatch).   *)
(***************************************************************************)
\* the step is a call get_watches(paths, T) on an open queue
GotWatches ==
    /\ calls'.n = calls.n + 1
    /\ calls'.op = "get_watches"
    /\ ~calls'.raised

\* the keys the call was given
GivenKeys == {calls'.paths[i] : i \in 1..Len(calls'.paths)}

\* the elements of a list
Elems(list) == {list[i] : i \in 1..Len(list)}

\* every watch of the bucket is older than T
AllOlder(key, T) == \A w \in Elems(watches[key]) : w.timestamp < T

\* C17: get_watches(paths, T) returns exactly the registered watches of the
\* given paths with timestamp < T, each once; it removes the bucket of a
\* given path if and only if every watch of the bucket has timestamp < T,
\* and leaves that bucket otherwise, and every other bucket, as it was.
C17_GetWatchesOlderOnly ==
    [][GotWatches
       => LET T == calls'.timestamp
          IN  /\ Elems(calls'.result)
                   = {w \in UNION {Elems(RegGet(watches, key)) : key \in GivenKeys} :
                         w.timestamp < T}
              /\ \A i, j \in 1..Len(calls'.result) :
                    calls'.result[i] = calls'.result[j] => i = j
              /\ \A key \in DOMAIN watches :
                    IF key \in GivenKeys /\ AllOlder(key, T)
                    THEN key \notin DOMAIN watches'
                    ELSE /\ key \in DOMAIN watches'
                         /\ watches'[key] = watches[key]
              /\ DOMAIN watches' \subseteq DOMAIN watches]_vars

\* get_watches returned one watch of a bucket of two and left the bucket,
\* the other watch having the observed timestamp
C17_Witness ==
    /\ calls.op = "get_watches"
    /\ Len(calls.result) = 1
    /\ \E key \in DOMAIN watches :
          /\ calls.paths = <<key>>
          /\ Len(watches[key]) = 2
          /\ calls.result[1] \in Elems(watches[key])
          /\ \E w \in Elems(watches[key]) : w.timestamp = calls.timestamp

(***************************************************************************)
(* Properties of watch callbacks (SpecRead).                               *)
(***************************************************************************)
\* the number of generate_message calls made on watch w
Callbacks(w) == Cardinality({i \in 1..Len(delivered) : delivered[i].watch = w})

\* watch w is in some bucket of the registry
Registry(w) == \E key \in DOMAIN watches : w \in Elems(watches[key])

\* C18: a watch is one-shot: the callback of a registered Watch object is
\* invoked at most once, and a watch whose callback was invoked is no
\* longer in the registry, over every interleaving of direct reads, watch
\* notifications and re-registrations.
C18_WatchOneShot ==
    \A i \in 1..Len(delivered) :
       /\ Callbacks(delivered[i].watch) = 1
       /\ ~Registry(delivered[i].watch)

(***************************************************************************)
(* Unmatched notifications (SpecWatch).                                    *)
(***************************************************************************)
\* the step is a call add_watch_notification(path, watch_event) on an open
\* queue
Notifies(path, watch_event) ==
    /\ ~eq_closing
    /\ calls'.n = calls.n + 1
    /\ calls'.op = "add_watch_notification"
    /\ calls'.path = path
    /\ calls'.watch_event = watch_event

\* a registered watch matches the notification: the event is a
\* NODE_DATA_CHANGED and the bucket of the path holds a GET_DATA watch
Matched(path, watch_event) ==
    /\ watch_event = "NODE_DATA_CHANGED"
    /\ \E w \in Elems(RegGet(watches, Md5(path))) : w.watch_type = "GET_DATA"

\* C19: a watch notification that no registered watch matches (no bucket
\* for the path, a NODE_DATA_CHANGED for a path without a GET_DATA watch, or
\* another event type) is dropped: nothing is enqueued, and the registry
\* and the event queue stay as they were.
C19_UnmatchedDropped ==
    [][\A p \in Paths, e \in WatchEventTypes :
          (Notifies(p, e) /\ ~Matched(p, e))
          => UNCHANGED <<eq_queue, watches>>]_vars

\* a NODE_DATA_CHANGED notification on a path whose bucket holds an EXISTS
\* watch alone was the last call, and nothing was enqueued
C19_Witness ==
    /\ calls.op = "add_watch_notification"
    /\ ~calls.raised
    /\ calls.watch_event = "NODE_DATA_CHANGED"
    /\ Md5(calls.path) \in DOMAIN watches
    /\ Len(watches[Md5(calls.path)]) = 1
    /\ watches[Md5(calls.path)][1].watch_type = "EXISTS"
    /\ eq_queue = <<>>

(***************************************************************************)
(* Properties of stop() (SpecStop).                                        *)
(***************************************************************************)
\* once stop() of thread t has returned, run() of t has left its loop
StoppedHasExited ==
    \A t \in Threads : stopper[t] = "returned" => ThreadState(t) = "exited"

\* C13: for each background thread a call of stop() eventually returns, in
\* every state it can be called in, and once it has returned the loop of
\* the thread has exited: the thread dequeues and forwards nothing more and
\* the Sorter delivers no further callback or Future completion.
C13_StopReturnsAndBars ==
    /\ []StoppedHasExited
    /\ [][(stopper["sorter"] = "returned" /\ stopper'["sorter"] = "returned")
          => UNCHANGED <<futures, completed, delivered>>]_vars
    /\ [][(stopper["submitter"] = "returned" /\ stopper'["submitter"] = "returned")
          => UNCHANGED wq_queue \/ Len(wq_queue') > Len(wq_queue)]_vars
    /\ \A t \in Threads : (stopper[t] = "wait") ~> (stopper[t] = "returned")

(***************************************************************************)
(* Properties of wait_close (SpecDrain).                                   *)
(***************************************************************************)
\* the step is a normal return of wait_close
DrainReturns == drain.pc # "returned" /\ drain'.pc = "returned"

\* the step ends wait_close by a TimeoutException
DrainFails == drain.pc # "TimeoutException" /\ drain'.pc = "TimeoutException"

\* C14: wait_close returns normally only when the queue is empty, never
\* while submissions are still queued, for every timeout including the
\* default; it fails with a TimeoutException only while submissions are
\* queued.
C14_DrainReturnsOnlyEmpty ==
    [][/\ DrainReturns => wq_queue = <<>>
       /\ DrainFails => wq_queue # <<>>]_vars

(***************************************************************************)
(* Properties of the threads under faults (SpecFaults).                    *)
(***************************************************************************)
\* C20: no background thread leaves its loop by an exception other than the
\* Sorter's correlation assertion: the Listener survives a malformed message
\* and an unknown watch-event type, and Listener, Submitter and Sorter
\* survive EventQueue.close() called while they process a submission, a
\* reply or a direct result.
C20_ThreadsSurvive ==
    /\ lis = "running"
    /\ sub.state = "running"
    /\ sorter \in {"running", "AssertionError"}

(***************************************************************************)
(* Properties of the pending list under concurrent callers (SpecOrder).    *)
(***************************************************************************)
\* C21: in every reachable state the Sorter's pending list is strictly
\* increasing in request_id from head to tail, hence holds no request_id
\* twice, for every interleaving of user threads enqueuing, the Submitter
\* dispatching and the Sorter appending, popping and removing on timeout.
C21_PendingStrictlyIncreasing ==
    \A i, j \in 1..Len(futures) : i < j => futures[i].id < futures[j].id

=============================================================================
